---- MODULE Spec2Model ----
(***************************************************************************)
(* A model of sticker/runtimes/base.py: the adapter that binds the paths   *)
(* and operations of an OpenAPI specification to the routes of a web       *)
(* framework (BaseAPI and its Flask-style binding FlaskLikeAPI).           *)
(*                                                                         *)
(* Python values are modelled as follows.                                  *)
(*   str    a sequence of one-character strings where the code looks at    *)
(*          the characters (URLs), a TLA+ string otherwise                 *)
(*   dict   a sequence of <<key, value>> pairs in insertion order, with    *)
(*          at most one pair per key                                       *)
(*   list   a sequence                                                     *)
(*   a callable returned by resolve_function: the pair <<i, j>> of the     *)
(*          path index and operation index it was resolved for             *)
(*   a closure: a record of the values it closes over                      *)
(***************************************************************************)
EXTENDS Naturals, Sequences, FiniteSets

VARIABLES
    \* ---- registration and dispatch (FlaskLikeAPI with register_route overridden)
    spec,           \* self.spec: the declared paths, each the sequence of its operations' HTTP methods
    phase,          \* position of the caller of register_routes
    pathIdx,        \* position of the for loop of register_routes in spec.paths()
    pathCalls,      \* the paths register_path was invoked with, in order
    resolveCalls,   \* the operations resolve_function was invoked on, in order
    routes,         \* the register_route calls received by the framework, in order
    error,          \* the exception that left register_routes, "" when none
    request,        \* self.request.method, "NONE" while self.request is None
    last,           \* the most recent invocation of a dispatcher
    \* ---- translate_route_format on its own
    trUrl,          \* path.url_path(), the argument's URL
    trResult,       \* the value returned
    trPhase,        \* "input" before the call, "returned" after it
    \* ---- BaseAPI.__init__
    files,          \* the file system: each file name's file, if it exists, and its text
    sys_path,       \* sys.path, process-wide
    spec_filename,  \* the spec_filename argument of the latest construction
    spec_text,      \* the spec_text argument of the latest construction
    contents,       \* the text handed to OpenAPISpec by the latest construction
    reads,          \* the files read_file_contents opened in the latest construction
    ctorOutcome,    \* how the latest construction ended
    nAdapters,      \* the number of constructions so far
    \* ---- the closure _wrapper of wrap_handler
    wrapCls,        \* the class of the adapter the wrapper closes over
    invocations,    \* the invocations of the wrapper, in order
    \* ---- the extension points
    callBase,       \* the class of this repository the instance's class derives from
    overrides,      \* the extension points the instance's own class defines
    lastCall        \* the most recent call of an extension point

mainVars == <<spec, phase, pathIdx, pathCalls, resolveCalls, routes, error, request, last>>
trVars == <<trUrl, trResult, trPhase>>
ctorVars == <<files, sys_path, spec_filename, spec_text, contents, reads, ctorOutcome, nAdapters>>
wrapVars == <<wrapCls, invocations>>
callVars == <<callBase, overrides, lastCall>>

vars == <<mainVars, trVars, ctorVars, wrapVars, callVars>>

\* ------------------------------------------------------------------ bounds

MaxPaths == 2
MaxOps == 2
MaxUrlLen == 3
MaxAdapters == 2
MaxInvocations == 2

\* ------------------------------------------------------------------ helpers

RECURSIVE SeqsUpTo(_, _)
\* All sequences over S of length at most n.
SeqsUpTo(S, n) ==
    IF n = 0 THEN {<<>>}
    ELSE LET shorter == SeqsUpTo(S, n - 1)
         IN shorter \cup {Append(s, x) : s \in {t \in shorter : Len(t) = n - 1}, x \in S}

\* ------------------------------------------------------------------ dict

EmptyDict == <<>>

DictKeys(d) == [k \in 1..Len(d) |-> d[k][1]]

DictHas(d, key) == \E k \in 1..Len(d) : d[k][1] = key

DictGet(d, key) == d[CHOOSE k \in 1..Len(d) : d[k][1] = key][2]

\* d.get(key, default)
DictGetDefault(d, key, default) == IF DictHas(d, key) THEN DictGet(d, key) ELSE default

\* A mutant of DictSet: the first value stored under a key stays.
DictSetKeepFirst(d, key, value) ==
    IF DictHas(d, key) THEN d ELSE Append(d, <<key, value>>)

\* d[key] = value: a present key keeps its position and takes the new value.
DictSet(d, key, value) ==
    IF DictHas(d, key)
    THEN [k \in 1..Len(d) |-> IF d[k][1] = key THEN <<key, value>> ELSE d[k]]
    ELSE Append(d, <<key, value>>)

\* ------------------------------------------------------------------ Optional

\* Optional[str]: None, or a value.
None == [some |-> FALSE, val |-> <<>>]
Some(v) == [some |-> TRUE, val |-> v]

NoCall == [name |-> "", outcome |-> "none"]

\* ------------------------------------------------------------------ inputs

HttpMethods == {"GET", "POST"}
RequestMethods == HttpMethods \cup {"DELETE"}

RECURSIVE PathUrl(_)
\* path.url_path() of the i-th declared path: "/a/{x}", "/a/{x}/{x}", ...
PathUrl(i) ==
    IF i = 0 THEN <<"/", "a">> ELSE PathUrl(i - 1) \o <<"/", "{", "x", "}">>

\* The specification models: up to MaxPaths paths of up to MaxOps operations.
SpecModels == SeqsUpTo(SeqsUpTo(HttpMethods, MaxOps), MaxPaths)

\* ------------------------------------------------------------------ FlaskLikeAPI

\* A mutant of Replace: only the first occurrence is replaced (count=1).
ReplaceFirst(s, old, new) ==
    [k \in 1..Len(s) |->
        IF s[k] = old /\ (\A j \in 1..(k - 1) : s[j] # old) THEN new ELSE s[k]]

\* str.replace(old, new) for one-character old and new.
Replace(s, old, new) == [k \in 1..Len(s) |-> IF s[k] = old THEN new ELSE s[k]]

translate_route_format(url) == Replace(Replace(url, "{", "<"), "}", ">")

\* The closure _wrapper: it closes over the bare function.
wrap_handler(bare_function) == [wraps |-> bare_function]

\* The closure _route: it closes over method_to_func.
route_call_by_http_method(method_to_func) == method_to_func

RECURSIVE BuildMethodToFunc(_, _, _)
\* method_to_func after the first n iterations of the loop over path.operations().
BuildMethodToFunc(i, ops, n) ==
    IF n = 0 THEN EmptyDict
    ELSE DictSet(BuildMethodToFunc(i, ops, n - 1), ops[n], wrap_handler(<<i, n>>))

\* The register_route call of register_path, given the finished mapping.
RouteRecord(i, method_to_func) ==
    [rule      |-> translate_route_format(PathUrl(i)),
     endpoint  |-> PathUrl(i),
     view_func |-> route_call_by_http_method(method_to_func),
     methods   |-> DictKeys(method_to_func)]

\* A mutant of register_path: the route is registered although a resolution failed.
register_path_partial(i, ops, failAt) ==
    LET n == IF failAt = 0 THEN Len(ops) ELSE failAt - 1
    IN [resolved   |-> [j \in 1..(IF failAt = 0 THEN Len(ops) ELSE failAt) |-> <<i, j>>],
        raised     |-> failAt # 0,
        registered |-> <<RouteRecord(i, BuildMethodToFunc(i, ops, n))>>]

\* A mutant of register_path: methods lists every operation's method.
register_path_all_methods(i, ops, failAt) ==
    [resolved   |-> [j \in 1..(IF failAt = 0 THEN Len(ops) ELSE failAt) |-> <<i, j>>],
     raised     |-> failAt # 0,
     registered |-> IF failAt = 0
                    THEN <<[RouteRecord(i, BuildMethodToFunc(i, ops, Len(ops)))
                              EXCEPT !.methods = ops]>>
                    ELSE <<>>]

\* register_path on the i-th path with operations ops; resolve_function raises on
\* the failAt-th operation (0: on none). The result names the resolve_function
\* calls made, whether the resolution error left the method, and the
\* register_route calls made.
register_path(i, ops, failAt) ==
    [resolved   |-> [j \in 1..(IF failAt = 0 THEN Len(ops) ELSE failAt) |-> <<i, j>>],
     raised     |-> failAt # 0,
     registered |-> IF failAt = 0
                    THEN <<RouteRecord(i, BuildMethodToFunc(i, ops, Len(ops)))>>
                    ELSE <<>>]

\* A mutant of IterNext: the loop skips every other path.
IterNextSkip(i) == i + 2

\* The for loop of register_routes advances to the next path.
IterNext(i) == i + 1

\* A mutant of RouteCall: the dispatcher always takes the first handler stored.
RouteCallFirst(method_to_func, method) ==
    IF method = "NONE" THEN [outcome |-> "AttributeError", handler |-> <<0, 0>>]
    ELSE IF method_to_func = EmptyDict THEN [outcome |-> "KeyError", handler |-> <<0, 0>>]
    ELSE [outcome |-> "handler", handler |-> method_to_func[1][2].wraps]

\* _route(*args, **kwargs): method_to_func[self.request.method](*args, **kwargs).
RouteCall(method_to_func, method) ==
    IF method = "NONE" THEN [outcome |-> "AttributeError", handler |-> <<0, 0>>]
    ELSE IF ~DictHas(method_to_func, method) THEN [outcome |-> "KeyError", handler |-> <<0, 0>>]
    ELSE [outcome |-> "handler", handler |-> DictGet(method_to_func, method).wraps]

NoDispatch == [route |-> 0, method |-> "NONE", outcome |-> "none", handler |-> <<0, 0>>]

\* ------------------------------------------------------------------ Spec

\* The state of the registration variables for the specification model sp.
MainInit(sp) ==
    /\ spec = sp
    /\ phase = "constructed"
    /\ pathIdx = 1
    /\ pathCalls = <<>>
    /\ resolveCalls = <<>>
    /\ routes = <<>>
    /\ error = ""
    /\ request = "NONE"
    /\ last = NoDispatch

TrIdle ==
    /\ trUrl = <<>>
    /\ trResult = <<>>
    /\ trPhase = "idle"

CtorIdle ==
    /\ files = [f \in {} |-> ""]
    /\ sys_path = <<>>
    /\ spec_filename = None
    /\ spec_text = None
    /\ contents = <<>>
    /\ reads = <<>>
    /\ ctorOutcome = "idle"
    /\ nAdapters = 0

WrapIdle ==
    /\ wrapCls = "FlaskLikeAPI"
    /\ invocations = <<>>

CallIdle ==
    /\ callBase = "FlaskLikeAPI"
    /\ overrides = {"register_route"}
    /\ lastCall = NoCall

Init ==
    /\ \E sp \in SpecModels : MainInit(sp)
    /\ TrIdle
    /\ CtorIdle
    /\ WrapIdle
    /\ CallIdle

\* The caller invokes register_routes; the loop starts at the first path.
CallRegisterRoutes ==
    /\ phase = "constructed"
    /\ phase' = "registering"
    /\ UNCHANGED <<spec, pathIdx, pathCalls, resolveCalls, routes, error, request, last>>
    /\ UNCHANGED <<trVars, ctorVars, wrapVars, callVars>>

\* One iteration of the loop of register_routes: register_path on the next path.
RegisterPath ==
    /\ phase = "registering"
    /\ pathIdx <= Len(spec)
    /\ \E failAt \in 0..Len(spec[pathIdx]) :
        LET r == register_path(pathIdx, spec[pathIdx], failAt)
        IN /\ pathCalls' = Append(pathCalls, pathIdx)
           /\ resolveCalls' = resolveCalls \o r.resolved
           /\ routes' = routes \o r.registered
           /\ IF r.raised
              THEN /\ phase' = "failed"
                   /\ error' = "ResolutionError"
                   /\ pathIdx' = pathIdx
              ELSE /\ phase' = phase
                   /\ error' = error
                   /\ pathIdx' = IterNext(pathIdx)
    /\ UNCHANGED <<spec, request, last>>
    /\ UNCHANGED <<trVars, ctorVars, wrapVars, callVars>>

\* The loop is exhausted and register_routes returns.
ReturnRegisterRoutes ==
    /\ phase = "registering"
    /\ pathIdx > Len(spec)
    /\ phase' = "done"
    /\ UNCHANGED <<spec, pathIdx, pathCalls, resolveCalls, routes, error, request, last>>
    /\ UNCHANGED <<trVars, ctorVars, wrapVars, callVars>>

\* The framework makes another request current.
SetRequest ==
    /\ phase = "done"
    /\ \E m \in RequestMethods : request' = m
    /\ UNCHANGED <<spec, phase, pathIdx, pathCalls, resolveCalls, routes, error, last>>
    /\ UNCHANGED <<trVars, ctorVars, wrapVars, callVars>>

\* The framework invokes the dispatcher of a registered route.
Dispatch ==
    /\ phase = "done"
    /\ \E k \in 1..Len(routes) :
        LET r == RouteCall(routes[k].view_func, request)
        IN last' = [route |-> k, method |-> request,
                    outcome |-> r.outcome, handler |-> r.handler]
    /\ UNCHANGED <<spec, phase, pathIdx, pathCalls, resolveCalls, routes, error, request>>
    /\ UNCHANGED <<trVars, ctorVars, wrapVars, callVars>>

Next ==
    \/ CallRegisterRoutes
    \/ RegisterPath
    \/ ReturnRegisterRoutes
    \/ SetRequest
    \/ Dispatch

Spec == Init /\ [][Next]_vars

\* ------------------------------------------------------------------ claims on Spec

\* The i-th declared path has an operation with HTTP method m.
Declares(i, m) == \E j \in 1..Len(spec[i]) : spec[i][j] = m

\* The operations of the i-th path that declare method m.
OpsWith(i, m) == {j \in 1..Len(spec[i]) : spec[i][j] = m}

\* The last operation, in path.operations() order, of the i-th path with method m.
LastOp(i, m) == CHOOSE j \in OpsWith(i, m) : \A j2 \in OpsWith(i, m) : j2 <= j

NoDuplicates(s) == \A a, b \in 1..Len(s) : s[a] = s[b] => a = b

\* The declared path whose url_path() is the endpoint of the k-th registered route.
PathOfRoute(k) == CHOOSE i \in 1..Len(spec) : PathUrl(i) = routes[k].endpoint

\* C1: at every moment of a call of register_routes the paths register_path has
\* been invoked with are the first paths of spec.paths(), each once and in
\* specification order; when the call returns, register_path has been invoked
\* exactly N times, once for each of the N declared paths.
C1_RegisterPathOncePerPathInOrder ==
    /\ Len(pathCalls) <= Len(spec)
    /\ \A k \in 1..Len(pathCalls) : pathCalls[k] = k
    /\ phase = "done" => Len(pathCalls) = Len(spec)

C1_Witness ==
    /\ phase = "done"
    /\ Len(spec) >= 2
    /\ pathCalls = <<1, 2>>

\* C2: every invocation of a registered path's dispatcher reads the method of
\* the request current at that moment; when the path declares the method it
\* invokes the wrapped handler stored under it, a handler of that same path
\* resolved for an operation with that method; when the path does not declare
\* it the invocation raises a key error and invokes no handler.
C2_DispatchByCurrentMethod ==
    [][last' # last =>
        LET k == last'.route
            m == request
            i == PathOfRoute(k)
        IN /\ k \in 1..Len(routes)
           /\ last'.method = m
           /\ (m \in RequestMethods /\ Declares(i, m)) =>
                /\ last'.outcome = "handler"
                /\ last'.handler[1] = i
                /\ last'.handler[2] \in OpsWith(i, m)
                /\ wrap_handler(last'.handler) = DictGet(routes[k].view_func, m)
           /\ (m \in RequestMethods /\ ~Declares(i, m)) =>
                /\ last'.outcome = "KeyError"
                /\ last'.handler = <<0, 0>>]_vars

C2_Witness ==
    /\ Len(spec) >= 2
    /\ spec[2] = <<"GET", "POST">>
    /\ last.route = 2
    /\ last.method = "POST"
    /\ last.outcome = "handler"
    /\ last.handler = <<2, 2>>
    /\ request = "DELETE"

\* C3: the framework receives at most one register_route call per invoked
\* register_path and, once register_routes has returned, exactly one per
\* declared path; the call for a path has the translated URL as rule (no brace
\* left), the untranslated url_path() as endpoint, the path's dispatcher as
\* view_func, and a methods list holding every declared method exactly once and
\* nothing else; every declared method is a key of the dispatcher's mapping as
\* it is handed over, stored with a wrapper of a handler of that path.
C3_OneRouteRecordPerPath ==
    /\ Len(routes) <= Len(pathCalls)
    /\ phase = "done" => Len(routes) = Len(spec)
    /\ \A k \in 1..Len(routes) :
        LET r == routes[k]
        IN /\ r.endpoint = PathUrl(k)
           /\ r.rule = translate_route_format(PathUrl(k))
           /\ Len(r.rule) = Len(r.endpoint)
           /\ \A c \in 1..Len(r.rule) : r.rule[c] \notin {"{", "}"}
           /\ \A c \in 1..Len(r.methods) : Declares(k, r.methods[c])
           /\ \A m \in HttpMethods :
                Declares(k, m) =>
                    /\ Cardinality({c \in 1..Len(r.methods) : r.methods[c] = m}) = 1
                    /\ DictHas(r.view_func, m)
                    /\ DictGet(r.view_func, m).wraps[1] = k

C3_Witness ==
    /\ phase = "done"
    /\ Len(spec) >= 1
    /\ spec[1] = <<"POST", "GET">>
    /\ Len(routes) = Len(spec)
    /\ routes[1].methods = <<"POST", "GET">>
    /\ routes[1].rule = <<"/", "a", "/", "<", "x", ">">>
    /\ routes[1].endpoint = <<"/", "a", "/", "{", "x", "}">>

\* C4: when two or more operations of a path declare the same HTTP method, the
\* dispatcher's mapping holds under that method the handler of the operation
\* that comes last in path.operations() order, every dispatch of that method
\* on that path invokes that handler, and the method is listed once in the
\* registered methods.
C4_LastOperationWins ==
    \A k \in 1..Len(routes) : \A m \in HttpMethods :
        Cardinality(OpsWith(k, m)) >= 2 =>
            /\ DictGet(routes[k].view_func, m) = wrap_handler(<<k, LastOp(k, m)>>)
            /\ Cardinality({c \in 1..Len(routes[k].methods) : routes[k].methods[c] = m}) = 1
            /\ (last.route = k /\ last.method = m) => last.handler = <<k, LastOp(k, m)>>

C4_Witness ==
    /\ Len(spec) >= 1
    /\ spec[1] = <<"GET", "GET">>
    /\ last.route = 1
    /\ last.method = "GET"
    /\ last.outcome = "handler"
    /\ last.handler = <<1, 2>>
    /\ routes[1].methods = <<"GET">>

\* C5 as claimed: when resolve_function raises during register_routes the
\* error leaves register_routes, no resolve_function call is repeated, and no
\* route at all has been handed to register_route.
C5_AllOrNothing ==
    phase = "failed" =>
        /\ error = "ResolutionError"
        /\ NoDuplicates(resolveCalls)
        /\ routes = <<>>

\* C5 as amended: when resolve_function raises during register_routes the
\* error leaves register_routes (which never returns normally), no
\* resolve_function call is repeated, the failing call is the last one made,
\* and neither the failing path nor any later path has been handed to
\* register_route; the routes of the paths before the failing one have been
\* handed over, one per path, and stay registered.
C5_NoRouteForFailingPath ==
    /\ (error # "") <=> (phase = "failed")
    /\ NoDuplicates(resolveCalls)
    /\ phase = "failed" =>
        /\ error = "ResolutionError"
        /\ pathCalls # <<>>
        /\ pathCalls[Len(pathCalls)] = pathIdx
        /\ resolveCalls # <<>>
        /\ resolveCalls[Len(resolveCalls)][1] = pathIdx
        /\ Len(routes) = pathIdx - 1
        /\ \A k \in 1..Len(routes) : routes[k].endpoint = PathUrl(k)
        /\ \A k \in 1..Len(routes) : \A i \in pathIdx..Len(spec) :
                routes[k].endpoint # PathUrl(i)

C5_Witness ==
    /\ phase = "failed"
    /\ Len(spec) = 2
    /\ pathIdx = 2
    /\ Len(routes) = 1
    /\ resolveCalls = <<<<1, 1>>, <<2, 1>>, <<2, 2>>>>

\* ------------------------------------------------------------------ SpecTranslate

UrlChars == {"/", "a", "{", "}", "<", ">"}

PetsUrl == <<"/", "p", "e", "t", "s", "/", "{", "p", "e", "t", "I", "d", "}">>
TwoParamsUrl == <<"/", "a", "/", "{", "x", "}", "/", "{", "y", "}">>
PlainUrl == <<"/", "p", "e", "t", "s">>

\* The URLs translate_route_format is applied to.
Urls == SeqsUpTo(UrlChars, MaxUrlLen) \cup {PetsUrl, TwoParamsUrl, PlainUrl}

InitTranslate ==
    /\ trUrl \in Urls
    /\ trResult = <<>>
    /\ trPhase = "input"
    /\ MainInit(<<>>)
    /\ CtorIdle
    /\ WrapIdle
    /\ CallIdle

\* translate_route_format(path) is called and returns.
CallTranslate ==
    /\ trPhase = "input"
    /\ trResult' = translate_route_format(trUrl)
    /\ trPhase' = "returned"
    /\ UNCHANGED <<trUrl, mainVars, ctorVars, wrapVars, callVars>>

NextTranslate == CallTranslate

SpecTranslate == InitTranslate /\ [][NextTranslate]_vars

\* C10: the URL returned by translate_route_format has the length of the
\* path's URL, '<' wherever the URL has '{', '>' wherever it has '}', and the
\* URL's own character everywhere else; /pets/{petId} gives /pets/<petId>,
\* /a/{x}/{y} gives /a/<x>/<y>, and a URL with no brace is returned unchanged.
C10_BracesBecomeAngleBrackets ==
    trPhase = "returned" =>
        /\ Len(trResult) = Len(trUrl)
        /\ \A k \in 1..Len(trUrl) :
            /\ trUrl[k] = "{" => trResult[k] = "<"
            /\ trUrl[k] = "}" => trResult[k] = ">"
            /\ trUrl[k] \notin {"{", "}"} => trResult[k] = trUrl[k]
        /\ trUrl = PetsUrl =>
            trResult = <<"/", "p", "e", "t", "s", "/", "<", "p", "e", "t", "I", "d", ">">>
        /\ trUrl = TwoParamsUrl =>
            trResult = <<"/", "a", "/", "<", "x", ">", "/", "<", "y", ">">>
        /\ (\A k \in 1..Len(trUrl) : trUrl[k] \notin {"{", "}"}) => trResult = trUrl

C10_Witness ==
    /\ trPhase = "returned"
    /\ trUrl = TwoParamsUrl
    /\ trResult = <<"/", "a", "/", "<", "x", ">", "/", "<", "y", ">">>

\* ------------------------------------------------------------------ SpecInit

\* File names are relative paths, the sequences of their components.
FileNames == {<<"a", "spec.yml">>, <<"b", "spec.yml">>}

FileText == <<"openapi: from file">>
LiteralText == <<"openapi: literal">>

NoFile == [exists |-> FALSE, text |-> <<>>]

\* A text is a sequence of lines; the empty string is the empty sequence.
FileSystems == [FileNames -> {NoFile, [exists |-> TRUE, text |-> FileText]}]

SpecFilenameArgs == {None} \cup {Some(f) : f \in FileNames}
SpecTextArgs == {None, Some(<<>>), Some(LiteralText)}

\* Python's truth value of an Optional[str]: None and "" are false.
Truthy(opt) == opt.some /\ opt.val # <<>>

\* os.path.abspath of a path: a relative path is joined to the working directory.
abspath(p) == IF p # <<>> /\ p[1] = "/" THEN p ELSE <<"/", "cwd">> \o p

\* os.path.dirname
dirname(p) == SubSeq(p, 1, Len(p) - 1)

\* list.insert(index, x), index counted from 0.
ListInsert(l, index, x) ==
    IF Len(l) <= index THEN Append(l, x)
    ELSE SubSeq(l, 1, index) \o <<x>> \o SubSeq(l, index + 1, Len(l))

\* setup_path(spec_filename): the new sys.path.
setup_path(filename, sp) == ListInsert(sp, 1, abspath(dirname(abspath(filename))))

\* BaseAPI.__init__(spec_filename, spec_text) on file system fs and sys.path sp:
\* the contents handed to OpenAPISpec, the files read, the new sys.path and how
\* the constructor ended.
BaseAPI_init(filename, text, fs, sp) ==
    IF Truthy(text)
    THEN [contents |-> text.val, reads |-> <<>>, sys_path |-> sp,
          outcome |-> "constructed"]
    ELSE IF ~filename.some
    THEN [contents |-> <<>>, reads |-> <<>>, sys_path |-> sp,
          outcome |-> "TypeError"]
    ELSE IF ~fs[filename.val].exists
    THEN [contents |-> <<>>, reads |-> <<filename.val>>,
          sys_path |-> setup_path(filename.val, sp),
          outcome |-> "FileNotFoundError"]
    ELSE [contents |-> fs[filename.val].text, reads |-> <<filename.val>>,
          sys_path |-> setup_path(filename.val, sp),
          outcome |-> "constructed"]

InitCtor ==
    /\ files \in FileSystems
    /\ sys_path = <<<<"/", "cwd">>, <<"/", "site-packages">>>>
    /\ spec_filename = None
    /\ spec_text = None
    /\ contents = <<>>
    /\ reads = <<>>
    /\ ctorOutcome = "idle"
    /\ nAdapters = 0
    /\ MainInit(<<>>)
    /\ TrIdle
    /\ WrapIdle
    /\ CallIdle

\* An adapter is constructed: BaseAPI.__init__ runs to its end or to its exception.
Construct ==
    /\ nAdapters < MaxAdapters
    /\ \E filename \in SpecFilenameArgs, text \in SpecTextArgs :
        LET r == BaseAPI_init(filename, text, files, sys_path)
        IN /\ spec_filename' = filename
           /\ spec_text' = text
           /\ contents' = r.contents
           /\ reads' = r.reads
           /\ sys_path' = r.sys_path
           /\ ctorOutcome' = r.outcome
    /\ nAdapters' = nAdapters + 1
    /\ UNCHANGED <<files, mainVars, trVars, wrapVars, callVars>>

NextCtor == Construct

SpecInit == InitCtor /\ [][NextCtor]_vars

\* C8: whenever an adapter is constructed with both a file path and literal
\* specification text, the contents handed to the specification model are the
\* literal text and no file is read.
C8_LiteralTextWins ==
    (nAdapters > 0 /\ spec_filename.some /\ spec_text.some) =>
        /\ ctorOutcome = "constructed"
        /\ contents = spec_text.val
        /\ reads = <<>>

\* ------------------------------------------------------------------ classes

ClassNames == {"BaseAPI", "FlaskLikeAPI"}

\* The extension points: the methods a binding is meant to supply.
Hooks == {"register_path", "register_route", "to_python_literals", "back_to_framework"}

\* The method resolution order of a class.
Mro(cls) == IF cls = "FlaskLikeAPI" THEN <<"FlaskLikeAPI", "BaseAPI">> ELSE <<"BaseAPI">>

\* A mutant of ClassBody: FlaskLikeAPI.register_route is an empty method.
ClassBodySilentRegisterRoute(cls, name) ==
    IF cls = "BaseAPI"
    THEN IF name \in {"register_path", "to_python_literals", "back_to_framework"}
         THEN "NotImplementedError"
         ELSE "undefined"
    ELSE IF name \in {"register_path", "to_python_literals", "back_to_framework",
                      "register_route"}
         THEN "implemented"
         ELSE "undefined"

\* What the class statement of cls holds for an extension point: a body that
\* raises NotImplementedError, a body that does the work, or no definition.
\* (abstractmethod has no effect: neither class has ABCMeta as its metaclass.)
ClassBody(cls, name) ==
    IF cls = "BaseAPI"
    THEN IF name \in {"register_path", "to_python_literals", "back_to_framework"}
         THEN "NotImplementedError"
         ELSE "undefined"
    ELSE IF name \in {"register_path", "to_python_literals", "back_to_framework"}
         THEN "implemented"
         ELSE IF name = "register_route" THEN "NotImplementedError"
         ELSE "undefined"

\* Attribute lookup along the method resolution order: the first class that
\* defines the name decides; a name no class defines is an AttributeError.
Lookup(cls, name) ==
    LET mro == Mro(cls)
        defining == {k \in 1..Len(mro) : ClassBody(mro[k], name) # "undefined"}
    IN IF defining = {} THEN "AttributeError"
       ELSE ClassBody(mro[CHOOSE k \in defining : \A k2 \in defining : k <= k2], name)

\* Calling an extension point on an instance of a class that derives from base
\* and defines the names in own itself.
CallOutcome(base, own, name) ==
    IF name \in own THEN "overridden" ELSE Lookup(base, name)

\* ------------------------------------------------------------------ SpecHooks

InitHooks ==
    /\ callBase \in ClassNames
    /\ overrides \in SUBSET Hooks
    /\ lastCall = NoCall
    /\ MainInit(<<>>)
    /\ TrIdle
    /\ CtorIdle
    /\ WrapIdle

\* An extension point is called on the instance.
CallHook ==
    /\ \E name \in Hooks :
        lastCall' = [name |-> name, outcome |-> CallOutcome(callBase, overrides, name)]
    /\ UNCHANGED <<callBase, overrides, mainVars, trVars, ctorVars, wrapVars>>

NextHooks == CallHook

SpecHooks == InitHooks /\ [][NextHooks]_vars

\* C9 as claimed: register_route, called on the base translator or on a
\* binding that does not override it, and to_python_literals and
\* back_to_framework, called on the base translator, each raise a
\* not-implemented error.
C9_UnimplementedHooksRaiseNotImplemented ==
    (lastCall.name # "" /\ lastCall.name \notin overrides) =>
        /\ lastCall.name = "register_route" => lastCall.outcome = "NotImplementedError"
        /\ (callBase = "BaseAPI"
                /\ lastCall.name \in {"to_python_literals", "back_to_framework"}) =>
            lastCall.outcome = "NotImplementedError"

\* C9 as amended: register_route, called on a FlaskLikeAPI binding that does
\* not override it, raises a not-implemented error; BaseAPI defines no
\* register_route, so on the base translator the call fails with an attribute
\* error, and it is the base translator's own registration hook,
\* register_path, that raises the not-implemented error there;
\* to_python_literals and back_to_framework, called on the base translator,
\* raise a not-implemented error. None of these calls returns.
C9_HooksFailLoudly ==
    (lastCall.name # "" /\ lastCall.name \notin overrides) =>
        /\ (callBase = "FlaskLikeAPI" /\ lastCall.name = "register_route") =>
            lastCall.outcome = "NotImplementedError"
        /\ (callBase = "BaseAPI" /\ lastCall.name = "register_route") =>
            lastCall.outcome = "AttributeError"
        /\ (callBase = "BaseAPI"
                /\ lastCall.name \in {"register_path", "to_python_literals",
                                      "back_to_framework"}) =>
            lastCall.outcome = "NotImplementedError"

C9_Witness ==
    /\ callBase = "FlaskLikeAPI"
    /\ overrides = {}
    /\ lastCall = [name |-> "register_route", outcome |-> "NotImplementedError"]

\* ------------------------------------------------------------------ SpecWrap

\* The positional and keyword arguments the framework invokes a wrapper with.
ArgTuples == {<<>>, <<"42">>}
KwargDicts == {EmptyDict, <<<<"petId", "7">>>>}

\* The mappings a handler returns.
Returns ==
    {EmptyDict,
     <<<<"content", "hello">>>>,
     <<<<"status", "200">>>>,
     <<<<"content", "hello">>, <<"status", "200">>>>,
     <<<<"status", "404">>, <<"content", "">>>>}

\* A mutant of to_python_literals: the keyword arguments are passed through.
to_python_literals_kwargs(args, kwargs) == kwargs

\* FlaskLikeAPI.to_python_literals(*args, **kwargs)
to_python_literals(args, kwargs) == EmptyDict

\* A mutant of back_to_framework: result.get('content') with no default.
back_to_framework_none(result) == DictGetDefault(result, "content", "None")

\* FlaskLikeAPI.back_to_framework(result)
back_to_framework(result) == DictGetDefault(result, "content", "")

\* _wrapper(*args, **kwargs) of an adapter of class cls, whose bare function
\* returns ret when called: the calls of the bare function (each the tuple of
\* its arguments), what it returned, and how and with what the wrapper ended.
WrapperCall(cls, args, kwargs, ret) ==
    IF Lookup(cls, "to_python_literals") = "NotImplementedError"
    THEN [args |-> args, kwargs |-> kwargs, handlerCalls |-> <<>>,
          ret |-> EmptyDict, outcome |-> "NotImplementedError", response |-> ""]
    ELSE LET params == to_python_literals(args, kwargs)
         IN [args |-> args, kwargs |-> kwargs, handlerCalls |-> <<<<params>>>>,
             ret |-> ret, outcome |-> "returned", response |-> back_to_framework(ret)]

InitWrap ==
    /\ wrapCls \in ClassNames
    /\ invocations = <<>>
    /\ MainInit(<<>>)
    /\ TrIdle
    /\ CtorIdle
    /\ CallIdle

\* The framework invokes the wrapped handler.
InvokeWrapper ==
    /\ Len(invocations) < MaxInvocations
    /\ \E args \in ArgTuples, kwargs \in KwargDicts, ret \in Returns :
        invocations' = Append(invocations, WrapperCall(wrapCls, args, kwargs, ret))
    /\ UNCHANGED <<wrapCls, mainVars, trVars, ctorVars, callVars>>

NextWrap == InvokeWrapper

SpecWrap == InitWrap /\ [][NextWrap]_vars

\* C6: on FlaskLikeAPI every invocation of a wrapped handler, whatever its
\* positional and keyword arguments, calls the original handler exactly once,
\* with the empty mapping as its only argument, and returns back_to_framework
\* of what that call returned; two invocations whose handler calls return the
\* same value give the same result, whatever was invoked before them.
C6_WrapperCallsHandlerOnceWithEmptyParams ==
    wrapCls = "FlaskLikeAPI" =>
        \A k \in 1..Len(invocations) :
            LET e == invocations[k]
            IN /\ e.outcome = "returned"
               /\ e.handlerCalls = <<<<EmptyDict>>>>
               /\ e.response = back_to_framework(e.ret)
               /\ \A k2 \in 1..Len(invocations) :
                    invocations[k2].ret = e.ret => invocations[k2].response = e.response

C6_Witness ==
    /\ wrapCls = "FlaskLikeAPI"
    /\ Len(invocations) = 2
    /\ invocations[1].kwargs = <<<<"petId", "7">>>>
    /\ invocations[1].args = <<"42">>
    /\ invocations[1].ret = <<<<"content", "hello">>>>
    /\ invocations[1].response = "hello"
    /\ invocations[2].args = <<>>
    /\ invocations[2].ret = <<<<"content", "hello">>>>
    /\ invocations[2].response = "hello"

\* C7: the default response translation never fails on a returned mapping: the
\* response is the value stored under the key content when the mapping has that
\* key and the empty string when it has not, whatever other keys it has;
\* {"content": "hello"} gives "hello" and {} gives "".
C7_ContentOrEmptyString ==
    wrapCls = "FlaskLikeAPI" =>
        \A k \in 1..Len(invocations) :
            LET e == invocations[k]
                withContent == {c \in 1..Len(e.ret) : e.ret[c][1] = "content"}
            IN /\ e.outcome = "returned"
               /\ \A c \in withContent : e.response = e.ret[c][2]
               /\ withContent = {} => e.response = ""
               /\ e.ret = <<<<"content", "hello">>>> => e.response = "hello"
               /\ e.ret = EmptyDict => e.response = ""

C7_Witness ==
    /\ wrapCls = "FlaskLikeAPI"
    /\ Len(invocations) = 2
    /\ invocations[1].ret = <<<<"status", "200">>>>
    /\ invocations[1].response = ""
    /\ invocations[2].ret = <<<<"content", "hello">>, <<"status", "200">>>>
    /\ invocations[2].response = "hello"

====
